---- MODULE Spec2Model ----
(***************************************************************************)
(* Model of split_pdf_by_index.py: the label parser (roman_to_int,         *)
(* looks_like_roman, str.isdigit/int), the index loader and the range      *)
(* resolver / splitter loop of main().                                     *)
(*                                                                         *)
(* Text is modelled character by character: a string is a sequence of      *)
(* one-character strings.  Two non-ASCII code points are written with a    *)
(* name: "SUP2" is U+00B2 (superscript two) and "ARABIC3" is U+0663        *)
(* (Arabic-Indic digit three).                                             *)
(***************************************************************************)
EXTENDS Integers, Sequences, FiniteSets, TLC

VARIABLES pc, argc, stdin, tsv_lines, data_lines, row, entries,
          first_numbered, actual_pdf_page, adjusted_entries, total_pages,
          reader, i, files, out, exit_status, tok, res

vars == <<pc, argc, stdin, tsv_lines, data_lines, row, entries,
          first_numbered, actual_pdf_page, adjusted_entries, total_pages,
          reader, i, files, out, exit_status, tok, res>>

mainVars == <<pc, argc, stdin, tsv_lines, data_lines, row, entries,
              first_numbered, actual_pdf_page, adjusted_entries, total_pages,
              reader, i, files, out, exit_status>>

-----------------------------------------------------------------------------
(* Bounds of the model *)

MaxArgc == 3
MaxLines == 3
MaxAnchor == 3
MaxPages == 3
MaxTokLen == 2

-----------------------------------------------------------------------------
(* Characters and Python's str primitives *)

TAB == "\t"
NL == "\n"

Whitespace == {" ", TAB, NL}

AsciiDigits == {"0", "1", "2", "3", "4", "5", "6", "7", "8", "9"}

\* characters for which str.isdigit() is true
UnicodeDigits == AsciiDigits \cup {"ARABIC3", "SUP2"}

\* characters int() accepts as decimal digits
DecimalDigits == AsciiDigits \cup {"ARABIC3"}

DigitValue(c) ==
    CASE c = "0" -> 0 [] c = "1" -> 1 [] c = "2" -> 2 [] c = "3" -> 3
      [] c = "4" -> 4 [] c = "5" -> 5 [] c = "6" -> 6 [] c = "7" -> 7
      [] c = "8" -> 8 [] c = "9" -> 9 [] c = "ARABIC3" -> 3

RomanChars == {"I", "V", "X", "L", "C", "D", "M",
               "i", "v", "x", "l", "c", "d", "m"}

\* str.lower() on one character of the numeral alphabet
Lower(c) ==
    CASE c = "I" -> "i" [] c = "V" -> "v" [] c = "X" -> "x" [] c = "L" -> "l"
      [] c = "C" -> "c" [] c = "D" -> "d" [] c = "M" -> "m" [] OTHER -> c

\* roman_map
roman_map(c) ==
    CASE c = "m" -> 1000 [] c = "d" -> 500 [] c = "c" -> 100 [] c = "l" -> 50
      [] c = "x" -> 10 [] c = "v" -> 5 [] c = "i" -> 1

RECURSIVE LStrip(_)
LStrip(s) ==
    IF s # << >> /\ Head(s) \in Whitespace THEN LStrip(Tail(s)) ELSE s

RECURSIVE RStrip(_)
RStrip(s) ==
    IF s # << >> /\ s[Len(s)] \in Whitespace
    THEN RStrip(SubSeq(s, 1, Len(s) - 1)) ELSE s

\* str.strip()
Strip(s) == RStrip(LStrip(s))

\* str.split(sep): the pieces between the occurrences of sep, k+1 of them
\* (from is where the current piece starts, k the position looked at)
RECURSIVE SplitFrom(_, _, _, _)
SplitFrom(s, sep, from, k) ==
    IF k > Len(s) THEN <<SubSeq(s, from, Len(s))>>
    ELSE IF s[k] = sep
    THEN <<SubSeq(s, from, k - 1)>> \o SplitFrom(s, sep, k + 1, k + 1)
    ELSE SplitFrom(s, sep, from, k + 1)

Split(s, sep) == SplitFrom(s, sep, 1, 1)

\* str.splitlines() for text whose only line boundary is "\n" and that does
\* not end with one (it has been stripped); "" gives []
SplitLines(s) == IF s = << >> THEN << >> ELSE Split(s, NL)

\* str.isdigit()
IsDigit(s) == s # << >> /\ \A k \in 1..Len(s) : s[k] \in UnicodeDigits

\* whether int(s) succeeds, for s with s.isdigit()
IntParses(s) == \A k \in 1..Len(s) : s[k] \in DecimalDigits

\* int(s) for a string of decimal digits
RECURSIVE IntOf(_)
IntOf(s) ==
    IF s = << >> THEN 0
    ELSE 10 * IntOf(SubSeq(s, 1, Len(s) - 1)) + DigitValue(s[Len(s)])

\* looks_like_roman: re.match(r'^[IVXLCDMivxlcdm]+$', s.strip())
looks_like_roman(s) ==
    LET t == Strip(s)
    IN  t # << >> /\ \A k \in 1..Len(t) : t[k] \in RomanChars

\* an iteration that adds only a strictly greater value
RomanStepStrict(acc, c) ==
    LET value == roman_map(c)
    IN  <<IF value > acc[2] THEN acc[1] + value ELSE acc[1] - value, value>>

\* lines 37-42: one iteration of the loop of roman_to_int over
\* reversed(roman); acc = <<result, prev_value>>, c the current character
RomanStep(acc, c) ==
    LET value == roman_map(c)
    IN  <<IF value >= acc[2] THEN acc[1] + value ELSE acc[1] - value, value>>

\* the loop, from the last character to the first
RECURSIVE RomanLoop(_, _, _)
RomanLoop(roman, k, acc) ==
    IF k = 0 THEN acc
    ELSE RomanLoop(roman, k - 1, RomanStep(acc, Lower(roman[k])))

roman_to_int(roman) == RomanLoop(roman, Len(roman), <<0, 0>>)[1]

\* sanitize_filename: re.sub(r'[\\/:*?"<>|]', '_', filename)
BadFileChars == {"\\", "/", ":", "*", "?", "\"", "<", ">", "|"}

sanitize_filename(s) ==
    [k \in 1..Len(s) |-> IF s[k] \in BadFileChars THEN "_" ELSE s[k]]

\* decimal digits of n >= 0
RECURSIVE DecStr(_)
DecStr(n) ==
    LET d == <<"0", "1", "2", "3", "4", "5", "6", "7", "8", "9">>[(n % 10) + 1]
    IN  IF n < 10 THEN <<d>> ELSE Append(DecStr(n \div 10), d)

\* f"{n:02d}"
Format02d(n) == IF n < 10 THEN <<"0">> \o DecStr(n) ELSE DecStr(n)

-----------------------------------------------------------------------------
(* The operator's input: the text pasted on standard input *)

PDF_FILE_NAME == <<"P", "D", "F", " ", "F", "i", "l", "e", " ", "N", "a", "m", "e">>
PDF_PAGE == <<"P", "D", "F", " ", "P", "a", "g", "e">>

L_Header == PDF_FILE_NAME \o <<TAB>> \o PDF_PAGE
L_Partial == PDF_FILE_NAME \o <<TAB>> \o PDF_PAGE \o <<"s">>
L_HeaderData == PDF_PAGE \o <<TAB, "4", TAB>> \o PDF_FILE_NAME
L_Zero == <<"Z", TAB, "0">>
L_One == <<"A", TAB, " ", "1">>
L_Roman == <<"Q", ":", TAB, "I">>
L_OneColumn == <<"E">>
L_Sup == <<"F", TAB, "SUP2">>
L_EmptyLabel == <<"H", TAB>>

InputLines == {L_Header, L_Partial, L_HeaderData, L_Zero, L_One, L_Roman,
               L_OneColumn, L_Sup, L_EmptyLabel}

\* the lines, each ended by a line break
RECURSIVE JoinLines(_)
JoinLines(ls) ==
    IF ls = << >> THEN << >> ELSE Head(ls) \o <<NL>> \o JoinLines(Tail(ls))

Texts == {JoinLines(ls) : ls \in UNION {[1..n -> InputLines] : n \in 0..MaxLines}}

\* the operator's answer to the anchor prompt: text that int() turns into an
\* integer, text that int() rejects, or the end of the input
AnchorResponses ==
    {[kind |-> "int", value |-> n] : n \in -1..MaxAnchor}
        \cup {[kind |-> "text", value |-> 0], [kind |-> "eof", value |-> 0]}

-----------------------------------------------------------------------------
(* Helpers of main() *)

Range(s) == {s[k] : k \in 1..Len(s)}

Say(m, a) == [msg |-> m, arg |-> a]

Entry(t, p) == [title |-> t, page |-> p]

NoEntry == Entry(<< >>, 0)

\* a header test that accepts a line holding only one of the two names
IsHeaderEither(header) ==
    PDF_FILE_NAME \in Range(header) \/ PDF_PAGE \in Range(header)

\* line 90: "PDF File Name" in header and "PDF Page" in header
IsHeader(header) ==
    PDF_FILE_NAME \in Range(header) /\ PDF_PAGE \in Range(header)

\* lines 88-95
DataLines(lines) ==
    IF IsHeader(Split(lines[1], TAB)) THEN Tail(lines) ELSE lines

\* line 145
RECURSIVE NumericEntries(_)
NumericEntries(es) ==
    IF es = << >> THEN << >>
    ELSE IF Head(es).page > 0 THEN <<Head(es)>> \o NumericEntries(Tail(es))
    ELSE NumericEntries(Tail(es))

\* line 149: min(numeric_entries, key=lambda x: x[1]) is the first of the
\* entries with the least page
RECURSIVE MinByPage(_)
MinByPage(es) ==
    IF Len(es) = 1 THEN es[1]
    ELSE LET m == MinByPage(Tail(es))
         IN  IF m.page < Head(es).page THEN m ELSE Head(es)

\* lines 162-169
Adjust(es, offset) ==
    [k \in 1..Len(es) |-> Entry(es[k].title, es[k].page + offset)]

\* line 183: list.sort(key=...) is stable; on short lists it is an insertion
\* sort that puts an element after the elements that are not greater
RECURSIVE InsertByPage(_, _)
InsertByPage(sorted, e) ==
    IF sorted = << >> THEN <<e>>
    ELSE IF sorted[Len(sorted)].page <= e.page THEN Append(sorted, e)
    ELSE Append(InsertByPage(SubSeq(sorted, 1, Len(sorted) - 1), e),
                sorted[Len(sorted)])

RECURSIVE SortFrom(_, _)
SortFrom(sorted, rest) ==
    IF rest = << >> THEN sorted
    ELSE SortFrom(InsertByPage(sorted, Head(rest)), Tail(rest))

\* the entries left in input order
SortUnsorted(es) == es

\* line 183
SortByPage(es) == SortFrom(<< >>, es)

\* an end page that is the next entry's own page
EndPageNoGap(adj, k, total) ==
    IF k < Len(adj) - 1 THEN adj[k + 2].page ELSE total

\* an end page two before the next entry's page
EndPageWide(adj, k, total) ==
    IF k < Len(adj) - 1 THEN adj[k + 2].page - 2 ELSE total

\* lines 190-193, for the 0-based index k of the loop
EndPage(adj, k, total) ==
    IF k < Len(adj) - 1 THEN adj[k + 2].page - 1 ELSE total

\* lines 197, 200-201
Start0(start_page) ==
    IF start_page - 1 < 0 THEN 0 ELSE start_page - 1

\* an end index that is not clamped to the last page
End0Unclamped(end_page, total) == end_page - 1

\* lines 198, 202-203
End0(end_page, total) ==
    IF end_page - 1 >= total THEN total - 1 ELSE end_page - 1

\* a range test that lets every range through
IsInvalidRangeNever(s0, e0) == FALSE

\* line 205
IsInvalidRange(s0, e0) == e0 < s0

\* line 212: range(start_0based, end_0based + 1)
PageIndexes(s0, e0) == [k \in 1..(e0 - s0 + 1) |-> s0 + k - 1]

\* line 217
FileIndex(k) == k + 1

\* line 218
FileName(n, title) ==
    Format02d(n) \o <<" ">> \o sanitize_filename(title) \o <<".", "p", "d", "f">>

\* lines 188-223: the files written after iteration k (0-based) of the loop
\* over the sorted entries.  A file is the record of what was written: its
\* name, the title of the entry it was written for, and the 0-based page
\* indexes taken from the reader.
SplitIteration(adj, k, total, written) ==
    LET title == adj[k + 1].title
        start_page == adj[k + 1].page
        end_page == EndPage(adj, k, total)
        start_0based == Start0(start_page)
        end_0based == End0(end_page, total)
    IN  IF IsInvalidRange(start_0based, end_0based)
        THEN written
        ELSE Append(written,
                    [name |-> FileName(FileIndex(k), title),
                     title |-> title,
                     pages |-> PageIndexes(start_0based, end_0based)])

\* lines 188-223: the whole loop, from iteration k on
RECURSIVE SplitLoop(_, _, _, _)
SplitLoop(adj, k, total, written) ==
    IF k >= Len(adj) THEN written
    ELSE SplitLoop(adj, k + 1, total, SplitIteration(adj, k, total, written))

\* lines 145-223: the files main() writes for parsed entries es, the anchor
\* page the operator gives and a document of total pages
Resolve(es, anchor, total) ==
    SplitLoop(SortByPage(Adjust(es, anchor - MinByPage(NumericEntries(es)).page)),
              0, total, << >>)

-----------------------------------------------------------------------------
(* main(), one action per step; pc is the position in main() *)

Init ==
    /\ pc = "args"
    /\ argc \in 1..MaxArgc
    /\ stdin = << >>
    /\ tsv_lines = << >>
    /\ data_lines = << >>
    /\ row = 0
    /\ entries = << >>
    /\ first_numbered = NoEntry
    /\ actual_pdf_page = 0
    /\ adjusted_entries = << >>
    /\ total_pages = 0
    /\ reader = "none"
    /\ i = 0
    /\ files = << >>
    /\ out = << >>
    /\ exit_status = -1
    /\ tok = << >>
    /\ res = -1

\* sys.exit(1) after printing m; an uncaught exception ends the process the
\* same way, with status 1
Exit(m, a) ==
    /\ pc' = "exited"
    /\ exit_status' = 1
    /\ out' = Append(out, Say(m, a))

\* lines 63-67
CheckArgs ==
    /\ pc = "args"
    /\ IF argc # 2
       THEN Exit("usage", << >>)
       ELSE /\ pc' = "read"
            /\ UNCHANGED <<out, exit_status>>
    /\ UNCHANGED <<argc, stdin, tsv_lines, data_lines, row, entries,
                   first_numbered, actual_pdf_page, adjusted_entries,
                   total_pages, reader, i, files, tok, res>>

\* lines 70-76
ReadInput ==
    /\ pc = "read"
    /\ \E text \in Texts :
        /\ stdin' = text
        /\ tsv_lines' = SplitLines(Strip(text))
    /\ IF tsv_lines' = << >>
       THEN Exit("no_tsv_data", << >>)
       ELSE /\ pc' = "header"
            /\ UNCHANGED <<out, exit_status>>
    /\ UNCHANGED <<argc, data_lines, row, entries, first_numbered,
                   actual_pdf_page, adjusted_entries, total_pages, reader, i, files,
                   tok, res>>

\* lines 85-95
DetectHeader ==
    /\ pc = "header"
    /\ data_lines' = DataLines(tsv_lines)
    /\ entries' = << >>
    /\ row' = 0
    /\ pc' = "rows"
    /\ UNCHANGED <<argc, stdin, tsv_lines, first_numbered, actual_pdf_page,
                   adjusted_entries, total_pages, reader, i, files, out, exit_status,
                   tok, res>>

\* lines 97-117: one iteration of the loop over data_lines
ParseRow ==
    /\ pc = "rows"
    /\ row < Len(data_lines)
    /\ LET parts == Split(data_lines[row + 1], TAB)
           title == Strip(parts[1])
           page_str == Strip(parts[2])
       IN  IF Len(parts) < 2
           THEN /\ row' = row + 1
                /\ UNCHANGED <<pc, entries, out, exit_status>>
           ELSE IF IsDigit(page_str)
           THEN IF IntParses(page_str)
                THEN /\ entries' = Append(entries, Entry(title, IntOf(page_str)))
                     /\ row' = row + 1
                     /\ UNCHANGED <<pc, out, exit_status>>
                ELSE \* int() raises ValueError, which nothing catches
                     /\ Exit("traceback_ValueError", page_str)
                     /\ UNCHANGED <<row, entries>>
           ELSE IF looks_like_roman(page_str)
           THEN /\ entries' = Append(entries, Entry(title, roman_to_int(page_str)))
                /\ row' = row + 1
                /\ UNCHANGED <<pc, out, exit_status>>
           ELSE /\ out' = Append(out, Say("warning_page_not_recognized", page_str))
                /\ row' = row + 1
                /\ UNCHANGED <<pc, entries, exit_status>>
    /\ UNCHANGED <<argc, stdin, tsv_lines, data_lines, first_numbered,
                   actual_pdf_page, adjusted_entries, total_pages, reader, i, files,
                   tok, res>>

\* lines 119-152, after the loop over data_lines
SelectAnchor ==
    /\ pc = "rows"
    /\ row = Len(data_lines)
    /\ IF entries = << >>
       THEN /\ Exit("no_valid_entries", << >>)
            /\ UNCHANGED first_numbered
       ELSE IF NumericEntries(entries) = << >>
       THEN /\ Exit("no_numeric_entries", << >>)
            /\ UNCHANGED first_numbered
       ELSE /\ first_numbered' = MinByPage(NumericEntries(entries))
            /\ out' = Append(out, Say("first_numbered_chapter", first_numbered'.title))
            /\ pc' = "prompt"
            /\ UNCHANGED exit_status
    /\ UNCHANGED <<argc, stdin, tsv_lines, data_lines, row, entries,
                   actual_pdf_page, adjusted_entries, total_pages, reader, i, files,
                   tok, res>>

\* lines 153-169: the prompt, the offset and the adjusted entries
PromptAnchor ==
    /\ pc = "prompt"
    /\ \E user_input \in AnchorResponses :
        IF user_input.kind = "eof"
        THEN \* input() raises EOFError, which nothing catches
             /\ pc' = "exited"
             /\ exit_status' = 1
             /\ out' = out \o <<Say("prompt", << >>), Say("traceback_EOFError", << >>)>>
             /\ UNCHANGED <<actual_pdf_page, adjusted_entries>>
        ELSE IF user_input.kind = "text"
        THEN /\ pc' = "exited"
             /\ exit_status' = 1
             /\ out' = out \o <<Say("prompt", << >>), Say("invalid_page_number", << >>)>>
             /\ UNCHANGED <<actual_pdf_page, adjusted_entries>>
        ELSE /\ actual_pdf_page' = user_input.value
             /\ adjusted_entries' =
                    Adjust(entries, user_input.value - first_numbered.page)
             /\ out' = Append(out, Say("prompt", << >>))
             /\ pc' = "open"
             /\ UNCHANGED exit_status
    /\ UNCHANGED <<argc, stdin, tsv_lines, data_lines, row, entries,
                   first_numbered, total_pages, reader, i, files, tok, res>>

\* lines 178-187: the document is opened and the adjusted entries sorted
OpenPdf ==
    /\ pc = "open"
    /\ reader' = "open"
    /\ \E n \in 0..MaxPages : total_pages' = n
    /\ adjusted_entries' = SortByPage(adjusted_entries)
    /\ i' = 0
    /\ files' = << >>
    /\ pc' = "split"
    /\ UNCHANGED <<argc, stdin, tsv_lines, data_lines, row, entries,
                   first_numbered, actual_pdf_page, out, exit_status, tok, res>>

\* lines 188-224: one iteration of the loop over adjusted_entries
SplitStep ==
    /\ pc = "split"
    /\ i < Len(adjusted_entries)
    /\ files' = SplitIteration(adjusted_entries, i, total_pages, files)
    /\ out' = Append(out, Say(IF files' = files THEN "warning_invalid_range"
                                               ELSE "created",
                              adjusted_entries[i + 1].title))
    /\ i' = i + 1
    /\ UNCHANGED <<pc, argc, stdin, tsv_lines, data_lines, row, entries,
                   first_numbered, actual_pdf_page, adjusted_entries,
                   total_pages, reader, exit_status, tok, res>>

\* lines 226-229, and the normal end of the process
Finish ==
    /\ pc = "split"
    /\ i = Len(adjusted_entries)
    /\ out' = Append(out, Say("splitting_complete", << >>))
    /\ pc' = "done"
    /\ exit_status' = 0
    /\ UNCHANGED <<argc, stdin, tsv_lines, data_lines, row, entries,
                   first_numbered, actual_pdf_page, adjusted_entries,
                   total_pages, reader, i, files, tok, res>>

Next ==
    \/ CheckArgs
    \/ ReadInput
    \/ DetectHeader
    \/ ParseRow
    \/ SelectAnchor
    \/ PromptAnchor
    \/ OpenPdf
    \/ SplitStep
    \/ Finish

Spec == Init /\ [][Next]_vars

-----------------------------------------------------------------------------
(* roman_to_int applied to the tokens over the numeral alphabet *)

TokensOfLen(n) == [1..n -> RomanChars]

Fixtures ==
    {<<"i", "v">>, <<"i", "x">>, <<"x", "i", "i", "i">>, <<"x", "l">>,
     <<"m", "c", "m", "x", "c", "i", "x">>, <<"I", "I", "I", "I">>,
     <<"V", "X">>, <<"M", "c", "M", "x", "C", "i", "X">>}

Tokens == UNION {TokensOfLen(n) : n \in 1..MaxTokLen} \cup Fixtures

InitRoman ==
    /\ tok \in Tokens
    /\ res = -1
    /\ pc = "idle"
    /\ argc = 2
    /\ stdin = << >>
    /\ tsv_lines = << >>
    /\ data_lines = << >>
    /\ row = 0
    /\ entries = << >>
    /\ first_numbered = NoEntry
    /\ actual_pdf_page = 0
    /\ adjusted_entries = << >>
    /\ total_pages = 0
    /\ reader = "none"
    /\ i = 0
    /\ files = << >>
    /\ out = << >>
    /\ exit_status = -1

\* lines 109-110: a token that looks_like_roman is decoded
Decode ==
    /\ pc = "idle"
    /\ res = -1
    /\ looks_like_roman(tok)
    /\ res' = roman_to_int(tok)
    /\ UNCHANGED <<tok, mainVars>>

NextRoman == Decode

SpecRoman == InitRoman /\ [][NextRoman]_vars

-----------------------------------------------------------------------------
(* The reference resolver the properties are stated against *)

\* the least ordinal among the entries with ordinal > 0
RefMinOrdinal(es) ==
    CHOOSE m \in {es[k].page : k \in 1..Len(es)} :
        m > 0 /\ \A k \in 1..Len(es) : es[k].page > 0 => m <= es[k].page

\* physical page of every entry: ordinal + offset
RefPhysical(es, anchor) ==
    [k \in 1..Len(es) |-> es[k].page + (anchor - RefMinOrdinal(es))]

\* position of entry k in the stable ascending order of the pages ph
RefRank(ph, k) ==
    1 + Cardinality({j \in DOMAIN ph : ph[j] < ph[k] \/ (ph[j] = ph[k] /\ j < k)})

RefSorted(es, anchor) ==
    LET ph == RefPhysical(es, anchor)
        at(r) == CHOOSE k \in DOMAIN ph : RefRank(ph, k) = r
    IN  [r \in 1..Len(es) |-> Entry(es[at(r)].title, ph[at(r)])]

\* the clipped range of the r-th sorted entry
RefRange(srt, r, count) ==
    LET start == srt[r].page
        end == IF r < Len(srt) THEN srt[r + 1].page - 1 ELSE count
    IN  [title |-> srt[r].title,
         start |-> IF start < 1 THEN 1 ELSE start,
         end |-> IF end > count THEN count ELSE end]

RefDegenerate(srt, r, count) ==
    RefRange(srt, r, count).end < RefRange(srt, r, count).start

RefRanges(es, anchor, count) ==
    LET srt == RefSorted(es, anchor)
    IN  SelectSeq([r \in 1..Len(es) |-> RefRange(srt, r, count)],
                  LAMBDA x : x.end >= x.start)

\* the range a written file covers, 1-based and inclusive
Emitted(fs) ==
    [k \in 1..Len(fs) |->
        [title |-> fs[k].title,
         start |-> fs[k].pages[1] + 1,
         end |-> fs[k].pages[Len(fs[k].pages)] + 1]]

CountMsg(m) == Cardinality({k \in 1..Len(out) : out[k].msg = m})

-----------------------------------------------------------------------------
(* Properties *)

\* C1: for parsed entries with at least one ordinal > 0, any integer anchor
\* page and any page count, the adjusted entries are ordinal + offset with
\* offset = anchor - least positive ordinal, they are sorted stably by
\* physical page, and the ranges of the written files are those of the
\* reference: start = page[i], end = page[i+1] - 1 or the page count, start
\* clamped up to 1, end clamped down to the page count, dropped when
\* end < start.  Entries [(A,1),(B,19),(C,35)], anchor 5, 50 pages give
\* [(A,5,22),(B,23,38),(C,39,50)].
C1_ResolverMatchesReference ==
    /\ pc = "open" =>
          adjusted_entries =
              [k \in 1..Len(entries) |->
                  Entry(entries[k].title, RefPhysical(entries, actual_pdf_page)[k])]
    /\ pc \in {"split", "done"} =>
          adjusted_entries = RefSorted(entries, actual_pdf_page)
    /\ pc = "done" =>
          Emitted(files) = RefRanges(entries, actual_pdf_page, total_pages)
    /\ pc = "args" =>
          Emitted(Resolve(<<Entry(<<"A">>, 1), Entry(<<"B">>, 19), Entry(<<"C">>, 35)>>,
                          5, 50))
          = <<[title |-> <<"A">>, start |-> 5, end |-> 22],
              [title |-> <<"B">>, start |-> 23, end |-> 38],
              [title |-> <<"C">>, start |-> 39, end |-> 50]>>

\* a finished run over three entries given out of page order, one of them
\* with ordinal 0, where one range was dropped and two files were written
C1_Witness ==
    /\ pc = "done"
    /\ Len(entries) = 3
    /\ \E a, b \in 1..3 : a < b /\ entries[a].page > entries[b].page
    /\ \E a \in 1..3 : entries[a].page = 0
    /\ Len(files) = 2

\* C2: every written file covers 1 <= start <= end <= page count and takes
\* only page indexes in 0..page_count-1 from the reader; a range with
\* end < start after clipping is dropped with a warning and writes no file.
C2_EmittedInBounds ==
    /\ \A k \in 1..Len(files) :
          /\ files[k].pages # << >>
          /\ \A j \in 1..Len(files[k].pages) :
                files[k].pages[j] \in 0..(total_pages - 1)
          /\ 1 <= Emitted(files)[k].start
          /\ Emitted(files)[k].start <= Emitted(files)[k].end
          /\ Emitted(files)[k].end <= total_pages
    /\ pc \in {"split", "done"} =>
          LET dropped == {r \in 1..i : RefDegenerate(adjusted_entries, r, total_pages)}
          IN  /\ CountMsg("warning_invalid_range") = Cardinality(dropped)
              /\ Len(files) = i - Cardinality(dropped)

\* a finished run where a written range had its start clamped to 1 and its
\* end clamped to the page count, and another range was dropped
C2_Witness ==
    /\ pc = "done"
    /\ \E r \in 1..Len(adjusted_entries) :
          /\ ~RefDegenerate(adjusted_entries, r, total_pages)
          /\ adjusted_entries[r].page < 1
          /\ r < Len(adjusted_entries)
          /\ adjusted_entries[r + 1].page - 1 > total_pages
    /\ \E r \in 1..Len(adjusted_entries) :
          RefDegenerate(adjusted_entries, r, total_pages)
    /\ files # << >>

\* C3: written ranges, in the order written, do not overlap and start at
\* increasing pages: of two files the earlier one ends before the later one
\* starts.
C3_NoOverlap ==
    \A a, b \in 1..Len(files) :
        a < b => Emitted(files)[a].end < Emitted(files)[b].start

\* a finished run with two files where two entries share a physical page
\* and an entry below page 1 was written with its start clamped
C3_Witness ==
    /\ pc = "done"
    /\ Len(files) >= 2
    /\ \E r \in 1..(Len(adjusted_entries) - 1) :
          adjusted_entries[r].page = adjusted_entries[r + 1].page
    /\ adjusted_entries[1].page < 1
    /\ files[1].title = adjusted_entries[1].title

\* C4: the k-th file written carries the 2-digit sequence number k, from
\* 01, whatever the number of ranges dropped before it.
C4_SequentialNumbering ==
    \A k \in 1..Len(files) :
        k <= 9 => SubSeq(files[k].name, 1, 3) = <<"0">> \o DecStr(k) \o <<" ">>

\* the page label of a data row with at least two columns, trimmed
LabelOf(line) == Strip(Split(line, TAB)[2])

HasTwoColumns(line) == Len(Split(line, TAB)) >= 2

\* a label that is empty or holds a character outside 0-9 and the numeral
\* symbols
Unrecognized(label) ==
    label = << >> \/ \E k \in 1..Len(label) : label[k] \notin AsciiDigits \cup RomanChars

AllAsciiDigits(label) ==
    label # << >> /\ \A k \in 1..Len(label) : label[k] \in AsciiDigits

\* C5: a data row whose trimmed label is empty or holds a character outside
\* 0-9 and {I,V,X,L,C,D,M} (either case) gives no entry and a diagnostic, and
\* the run goes on with the next row without raising; a label of ASCII
\* digits gives its decimal value.
C5_UnrecognizedLabelSkipped ==
    /\ \A k \in 1..Len(out) : out[k].msg # "traceback_ValueError"
    /\ pc = "rows" =>
          LET rows == {r \in 1..row : HasTwoColumns(data_lines[r])}
              bad == {r \in rows : Unrecognized(LabelOf(data_lines[r]))}
              nth(r) == Cardinality({q \in rows \ bad : q <= r})
          IN  /\ CountMsg("warning_page_not_recognized") = Cardinality(bad)
              /\ Len(entries) = Cardinality(rows \ bad)
              /\ \A r \in rows \ bad :
                    AllAsciiDigits(LabelOf(data_lines[r])) =>
                        entries[nth(r)].page = IntOf(LabelOf(data_lines[r]))

\* value of a numeral symbol, in either case
RefValue(c) ==
    CASE c \in {"i", "I"} -> 1 [] c \in {"v", "V"} -> 5 [] c \in {"x", "X"} -> 10
      [] c \in {"l", "L"} -> 50 [] c \in {"c", "C"} -> 100
      [] c \in {"d", "D"} -> 500 [] c \in {"m", "M"} -> 1000

\* the additive/subtractive rule from position k on: a symbol is added when
\* it is the rightmost or not less than the symbol to its right
RECURSIVE RefRoman(_, _)
RefRoman(t, k) ==
    IF k > Len(t) THEN 0
    ELSE (IF k = Len(t) \/ RefValue(t[k]) >= RefValue(t[k + 1])
          THEN RefValue(t[k]) ELSE 0 - RefValue(t[k]))
         + RefRoman(t, k + 1)

\* C6: for every non-empty token over the numeral symbols, in either case,
\* roman_to_int returns the value of the right-to-left additive/subtractive
\* rule, ill-formed numerals included: iv -> 4, ix -> 9, xiii -> 13,
\* xl -> 40, mcmxcix -> 1999, and IIII and VX are decoded.
C6_RomanDecoding ==
    res # -1 =>
        /\ res = RefRoman(tok, 1)
        /\ tok = <<"i", "v">> => res = 4
        /\ tok = <<"i", "x">> => res = 9
        /\ tok = <<"x", "i", "i", "i">> => res = 13
        /\ tok = <<"x", "l">> => res = 40
        /\ tok = <<"m", "c", "m", "x", "c", "i", "x">> => res = 1999
        /\ tok = <<"M", "c", "M", "x", "C", "i", "X">> => res = 1999
        /\ tok = <<"I", "I", "I", "I">> => res = 4
        /\ tok = <<"V", "X">> => res = 5

\* mcmxcix has been decoded
C6_Witness == tok = <<"m", "c", "m", "x", "c", "i", "x">> /\ res = 1999

\* C7 as stated: no file is written before the start/end/clip/drop decision
\* has been made for every entry.
C7_WritesAfterAllDecisions ==
    files # << >> => i = Len(adjusted_entries)

\* C7 as amended: a file is written only by the loop step that decides its
\* own entry, after the document is open and the entries are sorted, one
\* file for each entry whose clipped range is not degenerate and none for
\* the others; the entries after it are decided later.
C7_WritesAfterOwnDecision ==
    [][/\ files' # files =>
            /\ pc = "split" /\ reader = "open"
            /\ \A a, b \in 1..Len(adjusted_entries) :
                  a < b => adjusted_entries[a].page <= adjusted_entries[b].page
            /\ i' = i + 1
            /\ Len(files') = Len(files) + 1
            /\ SubSeq(files', 1, Len(files)) = files
            /\ files'[Len(files')].title = adjusted_entries[i + 1].title
       /\ (pc = "split" /\ i' = i + 1) =>
            (files' # files <=> ~RefDegenerate(adjusted_entries, i + 1, total_pages))
      ]_vars

\* a file has been written while a later entry is still undecided
C7_Witness ==
    /\ pc = "split"
    /\ files # << >>
    /\ i < Len(adjusted_entries)

FatalMsgs ==
    {"usage", "no_tsv_data", "no_valid_entries", "no_numeric_entries",
     "invalid_page_number"}

\* C8: wrong argument count, empty input, no entry, no entry with ordinal
\* > 0 and a non-integer anchor each end the run with status 1 before any
\* file is written and with no later step (prompt, document open, write);
\* rows with fewer than 2 columns, unrecognized labels and degenerate
\* ranges never end the run.
C8_FatalOnlyAndEarly ==
    /\ (pc # "args" /\ argc # 2) => exit_status = 1
    /\ (pc \notin {"args", "read"} /\ argc = 2 /\ tsv_lines = << >>) =>
          exit_status = 1
    /\ pc \in {"prompt", "open", "split", "done"} =>
          \E k \in 1..Len(entries) : entries[k].page > 0
    /\ exit_status = 1 =>
          /\ files = << >>
          /\ reader = "none"
          /\ out[Len(out)].msg \in FatalMsgs \ {"invalid_page_number"} =>
                CountMsg("prompt") = 0
    /\ (pc = "exited" /\ argc = 2 /\ tsv_lines # << >>) =>
          row = Len(data_lines)
    /\ pc = "done" => exit_status = 0 /\ i = Len(adjusted_entries)

\* a first line whose tab-separated cells include both column names
ClaimHeader(line) ==
    LET cells == Split(line, TAB)
    IN  \E a, b \in 1..Len(cells) :
            cells[a] = PDF_FILE_NAME /\ cells[b] = PDF_PAGE

C10_Coverage ==
    pc = "done" =>
        LET ph == RefPhysical(entries, actual_pdf_page)
            p_min == CHOOSE m \in Range(ph) : \A x \in Range(ph) : m <= x
            lo == IF p_min < 1 THEN 1 ELSE p_min
            covering(q) == {k \in 1..Len(files) : (q - 1) \in Range(files[k].pages)}
        IN  p_min <= total_pages =>
                /\ \A q \in lo..total_pages : Cardinality(covering(q)) = 1
                /\ \A q \in (lo - MaxPages - 2)..(lo - 1) : covering(q) = {}

\* a finished run over a document of at least 3 pages, where a range was
\* dropped, two files were written and the first entry starts after page 1
C10_Witness ==
    /\ pc = "done"
    /\ total_pages >= 3
    /\ Len(files) >= 2
    /\ Len(files) < Len(adjusted_entries)
    /\ adjusted_entries[1].page = 2

====
